---- MODULE Spec2Model ----
(***************************************************************************)
(* Model of logid::backend::hidpp10::ReceiverMonitor                        *)
(* (src/src/logid/backend/hidpp10/ReceiverMonitor.cpp).                     *)
(*                                                                         *)
(* Threads: one I/O thread delivering reports (handlers run synchronously  *)
(* on it), user threads calling _startPair/_stopPair, and the background   *)
(* task facility (run_task) that runs queued closures in any order.        *)
(* A scope guarded by std::lock_guard(_pair_mutex) is one atomic step: it  *)
(* touches only _pair_state/_discovery_event, the task queue and the       *)
(* pairReady hook, and no other step of the model runs inside it.          *)
(***************************************************************************)
EXTENDS Integers, Sequences, FiniteSets, TLC

\* ---- bounds of the model ------------------------------------------------
MaxReports == 3     \* reports delivered on the stream while pairing
MaxLifecycle == 2   \* reports delivered on the stream while devices come and go
MaxCalls   == 2     \* _startPair/_stopPair calls begun
MaxReady   == 2     \* ready() calls
MaxWait    == 1     \* waitForDevice() calls
MaxFailures == 1    \* addDevice/removeDevice invocations that throw

Indices  == {1, 2}                 \* device indices of the paired devices
RecvIndex == 255                   \* index carried by the receiver's own reports
Threads  == {1, 2}                 \* user threads driving pairing
Timeouts == {30}                   \* _startPair's timeout argument
Parts    == {0, 1}                 \* the two halves of a discovery record

HandlerKinds == {"connect", "discover", "passkey", "pair_status"}

VARIABLES
    bolt,              \* _receiver->bolt(): receiver variant, fixed at construction
    handler,           \* _connect_ev_handler, ... : TRUE when the handle is non-empty
    registered,        \* handler instances of each kind held by the event facility
    waits,             \* waitForDevice handlers registered on the raw device
    nextHid,           \* waitForDevice calls made so far (next handler_id)
    pair_state,        \* _pair_state
    discovery_event,   \* _discovery_event
    tasks,             \* closures handed to run_task and not yet run
    pc,                \* position of each user thread
    last_state,        \* _stopPair's local last_state, per thread (while it runs)
    timeout,           \* _startPair's argument, per thread (while it runs)
    calls,             \* _startPair/_stopPair calls begun
    enumerated,        \* enumerate() calls made by ready()
    ndelivered,        \* reports delivered so far; the n-th has rid n
    last,              \* the latest delivery: report, accepting handlers, state before/after
    accepted,          \* raw-stream callbacks invoked so far (report, handler)
    completed,         \* Discovering -> FindingPasskey transitions (report, record)
    hooks,             \* addDevice/removeDevice/pairReady invocations made so far
    cmds,              \* commands issued to the receiver, in order
    logs,              \* error log lines written so far
    pair_mutex,        \* _pair_mutex: "free", or "io" once the I/O thread waits for it inside its own scope
    pairReadyCalls,    \* what the consumer's pairReady did when it was last invoked
    running            \* closures a worker of run_task has begun and not finished

vars == <<bolt, handler, registered, waits, nextHid, pair_state, discovery_event,
          tasks, pc, last_state, timeout, calls, enumerated, ndelivered, last, accepted, completed, hooks,
          cmds, logs, pair_mutex, pairReadyCalls, running>>

\* ---- data ---------------------------------------------------------------
PairState == {"NotPairing", "Discovering", "FindingPasskey", "Pairing"}

EmptyDiscovery == [part0 |-> 0, part1 |-> 0]

NoReport == [rid |-> 0, type |-> "Other", subId |-> "Other", index |-> 0,
             seq |-> 0, val |-> 0, flag |-> FALSE]

NoConnection == [index |-> 0, linkEstablished |-> FALSE, withPayload |-> FALSE,
                 fromTimeoutCheck |-> FALSE]

\* A raw report: type byte, sub-identifier, device index and the payload
\* bits the decoders read (seq/val for discovery and passkey, flag for the
\* link, discovering and pairing bits).
MkReport(type, subId, index, seq, val, flag) ==
    [rid |-> 0, type |-> type, subId |-> subId, index |-> index,
     seq |-> seq, val |-> val, flag |-> flag]

LifecycleReports ==
    {MkReport("Short", "DeviceConnection", 1, 0, 0, TRUE),
     MkReport("Long", "DeviceDisconnection", 2, 0, 0, FALSE),
     MkReport("Other", "DeviceConnection", 1, 0, 0, TRUE)}

PairingReports ==
    {MkReport("Long", "DeviceDiscovered", RecvIndex, s, 1, FALSE) : s \in Parts}
    \cup {MkReport("Short", "DeviceDiscovered", RecvIndex, 1, 1, FALSE)}
    \cup {MkReport("Long", "PasskeyRequest", RecvIndex, 0, 7, FALSE)}
    \cup {MkReport("Short", sub, RecvIndex, 0, 0, f) :
            sub \in {"DiscoveryStatus", "PairStatus", "BoltPairStatus"},
            f \in BOOLEAN}

\* one stream with reports for each of the four subscriptions
\* a device that connects and disconnects
OverlapReports ==
    {MkReport("Short", "DeviceConnection", 1, 0, 0, TRUE),
     MkReport("Short", "DeviceDisconnection", 1, 0, 0, FALSE)}

AllReports ==
    {MkReport("Short", "DeviceConnection", 1, 0, 0, TRUE),
     MkReport("Long", "DeviceDiscovered", RecvIndex, 0, 1, FALSE),
     MkReport("Long", "DeviceDiscovered", RecvIndex, 1, 1, FALSE),
     MkReport("Long", "PasskeyRequest", RecvIndex, 0, 7, FALSE),
     MkReport("Short", "BoltPairStatus", RecvIndex, 0, 0, FALSE)}

\* ---- decoders of the protocol client -------------------------------------
\* Receiver::deviceConnectionEvent: a ConnectionEvent decoded from a real
\* notification (never from the timeout check).
deviceConnectionEvent(report) ==
    [index |-> report.index, linkEstablished |-> report.flag,
     withPayload |-> TRUE, fromTimeoutCheck |-> FALSE]

\* Receiver::deviceDisconnectionEvent
deviceDisconnectionEvent(report) ==
    [index |-> report.index, linkEstablished |-> FALSE,
     withPayload |-> FALSE, fromTimeoutCheck |-> FALSE]

\* Receiver::fillDeviceDiscoveryEvent: stores the part the report carries
\* into the record; the record is filled once both parts are present.
fillDeviceDiscoveryEvent(event, report) ==
    LET ev == IF report.seq = 0 THEN [event EXCEPT !.part0 = report.val]
                                ELSE [event EXCEPT !.part1 = report.val]
    IN  [event |-> ev, filled |-> (ev.part0 # 0 /\ ev.part1 # 0)]

\* Receiver::passkeyEvent
passkeyEvent(report) == report.val

\* Receiver::discoveryStatusEvent
discoveryStatusEvent(report) == [discovering |-> report.flag]

\* Receiver::pairStatusEvent
pairStatusEvent(report) == [pairing |-> report.flag]

\* Receiver::boltPairStatusEvent
boltPairStatusEvent(report) == [pairing |-> report.flag]

\* The hook and log records are multisets: an entry gets the number of its
\* occurrence, so that a second identical invocation is a second entry.
Invoke(entries, e) ==
    entries \cup
        {[e EXCEPT !.n = 1 + Cardinality({x \in entries : [x EXCEPT !.n = 0] = e})]}

\* ---- closures handed to run_task ------------------------------------------
Task(kind, inst, hid, report, conn, disc) ==
    [kind |-> kind, inst |-> inst, hid |-> hid, report |-> report,
     conn |-> conn, disc |-> disc]

\* ---- predicates of the four subscriptions and of waitForDevice ------------
ConnectPredicate(report) ==
    IF report.type = "Short" \/ report.type = "Long"
    THEN report.subId = "DeviceConnection" \/ report.subId = "DeviceDisconnection"
    ELSE FALSE

DiscoverPredicate(report) ==
    report.subId = "DeviceDiscovered" /\ report.type = "Long"

PasskeyPredicate(report) ==
    report.subId = "PasskeyRequest" /\ report.type = "Long"

PairStatusPredicate(report) ==
    \/ report.subId = "DiscoveryStatus"
    \/ report.subId = "PairStatus"
    \/ report.subId = "BoltPairStatus"

WaitPredicate(index, report) == report.index = index

Predicate(kind, report) ==
    CASE kind = "connect"     -> ConnectPredicate(report)
      [] kind = "discover"    -> DiscoverPredicate(report)
      [] kind = "passkey"     -> PasskeyPredicate(report)
      [] kind = "pair_status" -> PairStatusPredicate(report)

\* ---- callbacks ------------------------------------------------------------
\* A callback maps the part of the state a handler can touch,
\* s = [pair_state, discovery_event, tasks, hooks, cmds], to its value after the
\* callback returned.

\* variant: the callback calls the hook itself, on the delivering thread
ConnectCallbackInline(s, report) ==
    [s EXCEPT !.hooks = Invoke(@,
        [hook |-> IF report.subId = "DeviceConnection" THEN "addDevice"
                  ELSE "removeDevice",
         rid |-> report.rid, src |-> "life", hid |-> 0,
         conn |-> IF report.subId = "DeviceConnection"
                  THEN deviceConnectionEvent(report)
                  ELSE deviceDisconnectionEvent(report),
         disc |-> EmptyDiscovery, passkey |-> 0,
         thread |-> "io", locked |-> FALSE, failed |-> FALSE, n |-> 0])]

\* lines 45-70: build the typed report, hand everything else to run_task
ConnectCallback(s, report) ==
    LET inst == 1 + Cardinality({t \in s.tasks :
                        t.kind = "life" /\ t.report.rid = report.rid})
    IN  [s EXCEPT !.tasks = @ \cup
            {Task("life", inst, 0, report, NoConnection, EmptyDiscovery)}]

\* variant: the record is filled whatever the pairing state is
DiscoverCallbackAnyState(s, report) ==
    LET f == fillDeviceDiscoveryEvent(s.discovery_event, report)
    IN  IF f.filled /\ s.pair_state = "Discovering"
        THEN [s EXCEPT !.discovery_event = f.event,
                       !.pair_state = "FindingPasskey",
                       !.tasks = @ \cup
                          {Task("bolt", 1, 0, report, NoConnection, f.event)}]
        ELSE [s EXCEPT !.discovery_event = f.event]

\* variant: the result of fillDeviceDiscoveryEvent is not tested
DiscoverCallbackUnfilled(s, report) ==
    IF s.pair_state = "Discovering"
    THEN LET f == fillDeviceDiscoveryEvent(s.discovery_event, report)
         IN  [s EXCEPT !.discovery_event = f.event,
                       !.pair_state = "FindingPasskey",
                       !.tasks = @ \cup
                          {Task("bolt", 1, 0, report, NoConnection, f.event)}]
    ELSE s

\* lines 80-92, under _pair_mutex
DiscoverCallback(s, report) ==
    IF s.pair_state = "Discovering"
    THEN LET f == fillDeviceDiscoveryEvent(s.discovery_event, report)
         IN  IF f.filled
             THEN [s EXCEPT !.discovery_event = f.event,
                            !.pair_state = "FindingPasskey",
                            !.tasks = @ \cup
                               {Task("bolt", 1 + Cardinality({t \in s.tasks :
                                        t.kind = "bolt" /\ t.report.rid = report.rid}),
                                     0, report, NoConnection, f.event)}]
             ELSE [s EXCEPT !.discovery_event = f.event]
    ELSE s

\* variant: the state test is "pairing in progress" instead of FindingPasskey
PasskeyCallbackAnyState(s, report) ==
    IF s.pair_state # "NotPairing"
    THEN LET passkey == passkeyEvent(report)
         IN  [s EXCEPT !.pair_state = "Pairing",
                       !.hooks = Invoke(@,
                           [hook |-> "pairReady", rid |-> report.rid, src |-> "passkey",
                            hid |-> 0, conn |-> NoConnection,
                            disc |-> s.discovery_event, passkey |-> passkey,
                            thread |-> "io", locked |-> TRUE, failed |-> FALSE, n |-> 0])]
    ELSE s

\* variant: pairReady is invoked after the locked scope is left
PasskeyCallbackUnlocked(s, report) ==
    IF s.pair_state = "FindingPasskey"
    THEN LET passkey == passkeyEvent(report)
         IN  [s EXCEPT !.pair_state = "Pairing",
                       !.hooks = Invoke(@,
                           [hook |-> "pairReady", rid |-> report.rid, src |-> "passkey",
                            hid |-> 0, conn |-> NoConnection,
                            disc |-> s.discovery_event, passkey |-> passkey,
                            thread |-> "io", locked |-> FALSE, failed |-> FALSE, n |-> 0])]
    ELSE s

\* lines 102-110, under _pair_mutex; pairReady runs inside the locked scope
PasskeyCallback(s, report) ==
    IF s.pair_state = "FindingPasskey"
    THEN LET passkey == passkeyEvent(report)
         IN  [s EXCEPT !.pair_state = "Pairing",
                       !.hooks = Invoke(@,
                           [hook |-> "pairReady", rid |-> report.rid, src |-> "passkey",
                            hid |-> 0, conn |-> NoConnection,
                            disc |-> s.discovery_event, passkey |-> passkey,
                            thread |-> "io", locked |-> TRUE, failed |-> FALSE, n |-> 0])]
    ELSE s

\* variant: the BoltPairStatus branch is missing
PairStatusCallbackLegacy(s, report) ==
    IF report.subId = "DiscoveryStatus"
    THEN IF s.pair_state = "Discovering" /\ ~discoveryStatusEvent(report).discovering
         THEN [s EXCEPT !.pair_state = "NotPairing"]
         ELSE s
    ELSE IF report.subId = "PairStatus"
    THEN IF (s.pair_state = "FindingPasskey" \/ s.pair_state = "Pairing")
            /\ ~pairStatusEvent(report).pairing
         THEN [s EXCEPT !.pair_state = "NotPairing"]
         ELSE s
    ELSE s

\* lines 121-142, under _pair_mutex
PairStatusCallback(s, report) ==
    IF report.subId = "DiscoveryStatus"
    THEN LET event == discoveryStatusEvent(report)
         IN  IF s.pair_state = "Discovering" /\ ~event.discovering
             THEN [s EXCEPT !.pair_state = "NotPairing"]
             ELSE s
    ELSE IF report.subId = "PairStatus"
    THEN LET event == pairStatusEvent(report)
         IN  IF (s.pair_state = "FindingPasskey" \/ s.pair_state = "Pairing")
                /\ ~event.pairing
             THEN [s EXCEPT !.pair_state = "NotPairing"]
             ELSE s
    ELSE IF report.subId = "BoltPairStatus"
    THEN LET event == boltPairStatusEvent(report)
         IN  IF (s.pair_state = "FindingPasskey" \/ s.pair_state = "Pairing")
                /\ ~event.pairing
             THEN [s EXCEPT !.pair_state = "NotPairing"]
             ELSE s
    ELSE s

\* lines 160-177: synthesize the event and hand the add to run_task; the
\* handler is released by the task, not here
WaitCallback(s, w, report) ==
    LET event == [index |-> w.index, linkEstablished |-> TRUE,
                  withPayload |-> FALSE, fromTimeoutCheck |-> TRUE]
    IN  [s EXCEPT !.tasks = @ \cup
            {Task("wait", 1, w.hid, report, event, EmptyDiscovery)}]

Callback(kind, s, report) ==
    CASE kind = "connect"     -> ConnectCallback(s, report)
      [] kind = "discover"    -> DiscoverCallback(s, report)
      [] kind = "passkey"     -> PasskeyCallback(s, report)
      [] kind = "pair_status" -> PairStatusCallback(s, report)

\* The event facility: every registered instance whose predicate matches
\* is called once, on the delivering thread.
RECURSIVE CallInstances(_, _, _, _)
CallInstances(kind, n, s, report) ==
    IF n = 0 THEN s
    ELSE CallInstances(kind, n - 1, Callback(kind, s, report), report)

Accepting(kind, report) ==
    IF Predicate(kind, report) THEN registered[kind] ELSE 0

RECURSIVE CallWaits(_, _, _)
CallWaits(ws, s, report) ==
    IF ws = {} THEN s
    ELSE LET w == CHOOSE x \in ws : TRUE
         IN  CallWaits(ws \ {w}, WaitCallback(s, w, report), report)

\* the state before any delivery
NoDelivery ==
    [report |-> NoReport,
     accepting |-> [k \in HandlerKinds |-> 0],
     waits |-> {},
     before |-> [pair_state |-> "NotPairing", discovery_event |-> EmptyDiscovery],
     after |-> [pair_state |-> "NotPairing", discovery_event |-> EmptyDiscovery],
     newTasks |-> {},
     newHooks |-> {},
     newCmds |-> <<>>,
     ready |-> 0]

\* ---- log entries ----------------------------------------------------------
Hook(hook, t, fail) ==
    [hook |-> hook, rid |-> t.report.rid, src |-> t.kind, hid |-> t.hid,
     conn |-> IF t.kind = "wait" THEN t.conn
              ELSE IF hook = "addDevice" THEN deviceConnectionEvent(t.report)
              ELSE deviceDisconnectionEvent(t.report),
     disc |-> EmptyDiscovery, passkey |-> 0,
     thread |-> "task", locked |-> FALSE, failed |-> fail, n |-> 0]

Cmd(cmd, to, disc, rid, thread) ==
    [cmd |-> cmd, timeout |-> to, disc |-> disc, rid |-> rid,
     thread |-> thread, locked |-> FALSE]

LogLine(hook, index) == [hook |-> hook, index |-> index, n |-> 0]

\* ---- construction ---------------------------------------------------------
\* what a consumer's pairReady may do: return, or call back into the monitor
PairReadyBodies == {"nothing", "startPair", "stopPair"}

\* lines 26-32: the monitor as constructed
Constructed ==
    /\ bolt \in BOOLEAN
    /\ handler = [k \in HandlerKinds |-> FALSE]
    /\ registered = [k \in HandlerKinds |-> 0]
    /\ waits = {}
    /\ nextHid = 0
    /\ pair_state = "NotPairing"
    /\ discovery_event = EmptyDiscovery
    /\ tasks = {}
    /\ pc = [t \in Threads |-> "idle"]
    /\ last_state = [t \in Threads |-> "NotPairing"]
    /\ timeout = [t \in Threads |-> 0]
    /\ calls = 0
    /\ enumerated = 0
    /\ ndelivered = 0
    /\ last = NoDelivery
    /\ accepted = {}
    /\ completed = {}
    /\ hooks = {}
    /\ cmds = <<>>
    /\ logs = {}
    /\ pair_mutex = "free"
    /\ running = {}

Init == Constructed /\ pairReadyCalls = "nothing"

\* ---- ready() and enumerate() ----------------------------------------------
\* variant: the handle is not tested before registering
RegisterAlways(kind) == registered[kind] + 1

\* each "if (_x_handler.empty()) _x_handler = addEventHandler(...)"
RegisterIfEmpty(kind) ==
    IF handler[kind] THEN registered[kind] ELSE registered[kind] + 1

Enumerate == enumerated' = enumerated + 1

Ready ==
    /\ enumerated < MaxReady
    /\ registered' = [k \in HandlerKinds |-> RegisterIfEmpty(k)]
    /\ handler' = [k \in HandlerKinds |-> TRUE]
    /\ Enumerate
    /\ UNCHANGED <<bolt, pair_mutex, pairReadyCalls, running, waits, nextHid, pair_state, discovery_event, tasks, pc,
                   last_state, timeout, calls, ndelivered, last, accepted, completed, hooks, cmds, logs>>

\* ---- waitForDevice(index) -------------------------------------------------
WaitForDevice(index) ==
    /\ nextHid < MaxWait
    /\ nextHid' = nextHid + 1
    /\ waits' = waits \cup {[hid |-> nextHid + 1, index |-> index]}
    /\ UNCHANGED <<bolt, pair_mutex, pairReadyCalls, running, handler, registered, pair_state, discovery_event, tasks,
                   pc, last_state, timeout, calls, enumerated, ndelivered, last, accepted, completed, hooks,
                   cmds, logs>>

\* ---- one report delivered on the I/O thread -------------------------------
\* A pairReady invoked inside the locked scope (line 108) that calls
\* _startPair or _stopPair reaches lock_guard (line 186 or 199) on the thread
\* that owns _pair_mutex. Locking a std::mutex one owns is undefined; the
\* mutex of this Linux build is a plain pthread mutex, which blocks.
Reenters(invoked, body) ==
    /\ body # "nothing"
    /\ \E h \in invoked : h.hook = "pairReady" /\ h.locked

\* the delivery of r to a consumer whose pairReady, if invoked, does body
DeliverTo(r, body) ==
    /\ ndelivered < MaxReports
    /\ pair_mutex = "free"
    /\ LET report == [r EXCEPT !.rid = ndelivered + 1]
           ws == {w \in waits : WaitPredicate(w.index, report)}
           s0 == [pair_state |-> pair_state, discovery_event |-> discovery_event,
                  tasks |-> tasks, hooks |-> hooks, cmds |-> cmds]
           s1 == CallInstances("connect", Accepting("connect", report), s0, report)
           s2 == CallWaits(ws, s1, report)
           s3 == CallInstances("discover", Accepting("discover", report), s2, report)
           s4 == CallInstances("passkey", Accepting("passkey", report), s3, report)
           s5 == CallInstances("pair_status", Accepting("pair_status", report), s4, report)
       IN  /\ pair_state' = s5.pair_state
           /\ discovery_event' = s5.discovery_event
           /\ tasks' = s5.tasks
           /\ hooks' = s5.hooks
           /\ cmds' = s5.cmds
           /\ pair_mutex' = IF Reenters(s5.hooks \ hooks, body) THEN "io" ELSE pair_mutex
           /\ pairReadyCalls' =
                IF \E h \in s5.hooks \ hooks : h.hook = "pairReady"
                THEN body ELSE pairReadyCalls
           /\ ndelivered' = ndelivered + 1
           /\ last' = [report |-> report,
                       accepting |-> [k \in HandlerKinds |-> Accepting(k, report)],
                       waits |-> {w.hid : w \in ws},
                       before |-> [pair_state |-> pair_state,
                                   discovery_event |-> discovery_event],
                       after |-> [pair_state |-> s5.pair_state,
                                  discovery_event |-> s5.discovery_event],
                       newTasks |-> s5.tasks \ tasks,
                       newHooks |-> s5.hooks \ hooks,
                       newCmds |-> SubSeq(s5.cmds, Len(cmds) + 1, Len(s5.cmds)),
                       ready |-> enumerated]
           /\ completed' =
                IF pair_state = "Discovering" /\ s5.pair_state = "FindingPasskey"
                THEN completed \cup {[rid |-> report.rid, disc |-> s5.discovery_event]}
                ELSE completed
           /\ accepted' = accepted
                \cup {[rid |-> report.rid, kind |-> "life", hid |-> 0,
                       subId |-> report.subId] : n \in 1..Accepting("connect", report)}
                \cup {[rid |-> report.rid, kind |-> "wait", hid |-> w.hid,
                       subId |-> report.subId] : w \in ws}
    /\ UNCHANGED <<bolt, running, handler, registered, waits, nextHid, pc, last_state,
                   timeout, calls, enumerated, logs>>

\* a consumer whose pairReady does not call back into the monitor
Deliver(r) == DeliverTo(r, "nothing")

DeliverLifecycle ==
    /\ ndelivered < MaxLifecycle
    /\ \E r \in LifecycleReports : Deliver(r)

DeliverOverlap ==
    /\ ndelivered < MaxLifecycle
    /\ \E r \in OverlapReports : Deliver(r)

DeliverPairing == \E r \in PairingReports : Deliver(r)

DeliverAll == \E r \in AllReports : Deliver(r)

\* a consumer whose pairReady may call _startPair or _stopPair; only a
\* passkey report can reach pairReady
DeliverConsumer ==
    \E r \in PairingReports :
        \E body \in IF PasskeyPredicate(r) THEN PairReadyBodies ELSE {"nothing"} :
            DeliverTo(r, body)

\* a hook may throw, at most MaxFailures times in a run
FailChoices == IF Cardinality(logs) < MaxFailures THEN BOOLEAN ELSE {FALSE}

\* ---- background tasks -----------------------------------------------------
\* variant: the connection branch calls the remove hook
RunLifeTaskWrongHook(t) ==
    /\ t \in tasks /\ t.kind = "life"
    /\ tasks' = tasks \ {t}
    /\ \E fail \in FailChoices :
        /\ hooks' = Invoke(hooks, Hook("removeDevice", t, fail))
        /\ logs' = IF fail THEN Invoke(logs, LogLine("removeDevice", t.report.index))
                   ELSE logs
    /\ UNCHANGED <<bolt, pair_mutex, pairReadyCalls, running, handler, registered, waits, nextHid, pair_state,
                   discovery_event, pc, last_state, timeout, calls, enumerated,
                   ndelivered, last, accepted, completed, cmds>>

\* lines 51-69
RunLifeTask(t) ==
    /\ t \in tasks /\ t.kind = "life"
    /\ tasks' = tasks \ {t}
    /\ \E fail \in FailChoices :
        IF t.report.subId = "DeviceConnection"
        THEN /\ hooks' = Invoke(hooks, Hook("addDevice", t, fail))
             /\ logs' = IF fail THEN Invoke(logs, LogLine("addDevice", t.report.index))
                        ELSE logs
        ELSE IF t.report.subId = "DeviceDisconnection"
        THEN /\ hooks' = Invoke(hooks, Hook("removeDevice", t, fail))
             /\ logs' = IF fail THEN Invoke(logs, LogLine("removeDevice", t.report.index))
                        ELSE logs
        ELSE /\ fail = FALSE
             /\ UNCHANGED <<hooks, logs>>
    /\ UNCHANGED <<bolt, pair_mutex, pairReadyCalls, running, handler, registered, waits, nextHid, pair_state,
                   discovery_event, pc, last_state, timeout, calls, enumerated,
                   ndelivered, last, accepted, completed, cmds>>

\* variant: the failure of the hook is swallowed without a log line
RunWaitTaskSilent(t) ==
    /\ t \in tasks /\ t.kind = "wait"
    /\ tasks' = tasks \ {t}
    /\ waits' = {w \in waits : w.hid # t.hid}
    /\ \E fail \in FailChoices :
        /\ hooks' = Invoke(hooks, Hook("addDevice", t, fail))
        /\ logs' = logs
    /\ UNCHANGED <<bolt, pair_mutex, pairReadyCalls, running, handler, registered, nextHid, pair_state, discovery_event,
                   pc, last_state, timeout, calls, enumerated, ndelivered, last, accepted, completed, cmds>>

\* lines 167-176
RunWaitTask(t) ==
    /\ t \in tasks /\ t.kind = "wait"
    /\ tasks' = tasks \ {t}
    /\ waits' = {w \in waits : w.hid # t.hid}
    /\ \E fail \in FailChoices :
        /\ hooks' = Invoke(hooks, Hook("addDevice", t, fail))
        /\ logs' = IF fail THEN Invoke(logs, LogLine("addDevice", t.conn.index))
                   ELSE logs
    /\ UNCHANGED <<bolt, pair_mutex, pairReadyCalls, running, handler, registered, nextHid, pair_state, discovery_event,
                   pc, last_state, timeout, calls, enumerated, ndelivered, last, accepted, completed, cmds>>

\* variant: the closure reads _discovery_event when it runs instead of
\* carrying its own copy
RunBoltTaskSharedRecord(t) ==
    /\ t \in tasks /\ t.kind = "bolt"
    /\ tasks' = tasks \ {t}
    /\ cmds' = Append(cmds, Cmd("startBoltPairing", 0, discovery_event,
                                t.report.rid, "task"))
    /\ UNCHANGED <<bolt, pair_mutex, pairReadyCalls, running, handler, registered, waits, nextHid, pair_state,
                   discovery_event, pc, last_state, timeout, calls, enumerated,
                   ndelivered, last, accepted, completed, hooks, logs>>

\* lines 87-89
RunBoltTask(t) ==
    /\ t \in tasks /\ t.kind = "bolt"
    /\ tasks' = tasks \ {t}
    /\ cmds' = Append(cmds, Cmd("startBoltPairing", 0, t.disc, t.report.rid, "task"))
    /\ UNCHANGED <<bolt, pair_mutex, pairReadyCalls, running, handler, registered, waits, nextHid, pair_state,
                   discovery_event, pc, last_state, timeout, calls, enumerated,
                   ndelivered, last, accepted, completed, hooks, logs>>

\* The closure of lines 51-69 in two steps, for the time its hook takes.
\* variant: run_task runs one closure at a time, in the order of submission
BeginLifeTaskInOrder(t) ==
    /\ t \in tasks /\ t.kind = "life"
    /\ running = {}
    /\ \A u \in tasks : t.report.rid <= u.report.rid
    /\ tasks' = tasks \ {t}
    /\ running' = running \cup {t}
    /\ UNCHANGED <<bolt, pair_mutex, pairReadyCalls, handler, registered, waits, nextHid,
                   pair_state, discovery_event, pc, last_state, timeout, calls,
                   enumerated, ndelivered, last, accepted, completed, cmds, hooks, logs>>

\* a worker of run_task picks the closure up, whatever else is queued or
\* in progress
BeginLifeTask(t) ==
    /\ t \in tasks /\ t.kind = "life"
    /\ tasks' = tasks \ {t}
    /\ running' = running \cup {t}
    /\ UNCHANGED <<bolt, pair_mutex, pairReadyCalls, handler, registered, waits, nextHid,
                   pair_state, discovery_event, pc, last_state, timeout, calls,
                   enumerated, ndelivered, last, accepted, completed, cmds, hooks, logs>>

\* lines 52-68: the hook returns or throws, and the closure ends
EndLifeTask(t) ==
    /\ t \in running
    /\ running' = running \ {t}
    /\ \E fail \in FailChoices :
        IF t.report.subId = "DeviceConnection"
        THEN /\ hooks' = Invoke(hooks, Hook("addDevice", t, fail))
             /\ logs' = IF fail THEN Invoke(logs, LogLine("addDevice", t.report.index))
                        ELSE logs
        ELSE IF t.report.subId = "DeviceDisconnection"
        THEN /\ hooks' = Invoke(hooks, Hook("removeDevice", t, fail))
             /\ logs' = IF fail THEN Invoke(logs, LogLine("removeDevice", t.report.index))
                        ELSE logs
        ELSE /\ fail = FALSE
             /\ UNCHANGED <<hooks, logs>>
    /\ UNCHANGED <<bolt, pair_mutex, pairReadyCalls, handler, registered, waits, nextHid,
                   pair_state, discovery_event, pc, last_state, timeout, calls,
                   enumerated, ndelivered, last, accepted, completed, cmds, tasks>>

RunLife == \E t \in tasks : RunLifeTask(t)

BeginLife == \E t \in tasks : BeginLifeTask(t)

EndLife == \E t \in running : EndLifeTask(t)

RunWait == \E t \in tasks : RunWaitTask(t)

RunBolt == \E t \in tasks : RunBoltTask(t)

\* ---- _startPair(timeout) --------------------------------------------------
\* variant: the locked scope writes Discovering on every receiver
StartPairLockedDiscovering(t, to) ==
    /\ pc[t] = "idle"
    /\ pair_mutex = "free"
    /\ calls < MaxCalls
    /\ calls' = calls + 1
    /\ pair_state' = "Discovering"
    /\ discovery_event' = EmptyDiscovery
    /\ timeout' = [timeout EXCEPT ![t] = to]
    /\ pc' = [pc EXCEPT ![t] = "startCmd"]
    /\ UNCHANGED <<bolt, pair_mutex, pairReadyCalls, running, handler, registered, waits, nextHid, tasks, last_state,
                   enumerated, ndelivered, last, accepted, completed, hooks, cmds, logs>>

\* variant: the command is issued before the locked scope is left
StartPairLockedIssuing(t, to) ==
    /\ pc[t] = "idle"
    /\ pair_mutex = "free"
    /\ calls < MaxCalls
    /\ calls' = calls + 1
    /\ pair_state' = IF bolt THEN "Discovering" ELSE "Pairing"
    /\ discovery_event' = EmptyDiscovery
    /\ cmds' = Append(cmds,
            [Cmd(IF bolt THEN "startDiscover" ELSE "startPairing",
                 to, EmptyDiscovery, 0, "user") EXCEPT !.locked = TRUE])
    /\ timeout' = [timeout EXCEPT ![t] = to]
    /\ pc' = [pc EXCEPT ![t] = "startCmd"]
    /\ UNCHANGED <<bolt, pair_mutex, pairReadyCalls, running, handler, registered, waits, nextHid, tasks, last_state,
                   enumerated, ndelivered, last, accepted, completed, hooks, logs>>

\* lines 186-190, the locked scope
StartPairLocked(t, to) ==
    /\ pc[t] = "idle"
    /\ pair_mutex = "free"
    /\ calls < MaxCalls
    /\ calls' = calls + 1
    /\ pair_state' = IF bolt THEN "Discovering" ELSE "Pairing"
    /\ discovery_event' = EmptyDiscovery
    /\ timeout' = [timeout EXCEPT ![t] = to]
    /\ pc' = [pc EXCEPT ![t] = "startCmd"]
    /\ UNCHANGED <<bolt, pair_mutex, pairReadyCalls, running, handler, registered, waits, nextHid, tasks, last_state,
                   enumerated, ndelivered, last, accepted, completed, hooks, cmds, logs>>

\* variant: the receiver variant is not consulted for the command
StartPairCommandDiscover(t) ==
    /\ pc[t] = "startCmd"
    /\ cmds' = Append(cmds, Cmd("startDiscover", timeout[t], EmptyDiscovery, 0, "user"))
    /\ pc' = [pc EXCEPT ![t] = "idle"]
    /\ timeout' = [timeout EXCEPT ![t] = 0]
    /\ UNCHANGED <<bolt, pair_mutex, pairReadyCalls, running, handler, registered, waits, nextHid, pair_state,
                   discovery_event, tasks, last_state, calls, enumerated,
                   ndelivered, last, accepted, completed, hooks, logs>>

\* lines 192-195
StartPairCommand(t) ==
    /\ pc[t] = "startCmd"
    /\ cmds' = Append(cmds, Cmd(IF bolt THEN "startDiscover" ELSE "startPairing",
                                timeout[t], EmptyDiscovery, 0, "user"))
    /\ pc' = [pc EXCEPT ![t] = "idle"]
    /\ timeout' = [timeout EXCEPT ![t] = 0]
    /\ UNCHANGED <<bolt, pair_mutex, pairReadyCalls, running, handler, registered, waits, nextHid, pair_state,
                   discovery_event, tasks, last_state, calls, enumerated,
                   ndelivered, last, accepted, completed, hooks, logs>>

\* ---- _stopPair() ----------------------------------------------------------
\* lines 199-204, the locked scope
StopPairLocked(t) ==
    /\ pc[t] = "idle"
    /\ pair_mutex = "free"
    /\ calls < MaxCalls
    /\ calls' = calls + 1
    /\ last_state' = [last_state EXCEPT ![t] = pair_state]
    /\ pair_state' = "NotPairing"
    /\ pc' = [pc EXCEPT ![t] = "stopCmd"]
    /\ UNCHANGED <<bolt, pair_mutex, pairReadyCalls, running, handler, registered, waits, nextHid, discovery_event,
                   tasks, timeout, enumerated, ndelivered, last, accepted, completed, hooks, cmds, logs>>

\* variant: the FindingPasskey case is forgotten
StopPairCommandsNoPasskey(observed) ==
    IF observed = "Discovering"
    THEN <<Cmd("stopDiscover", 0, EmptyDiscovery, 0, "user")>>
    ELSE IF observed = "Pairing"
    THEN <<Cmd("stopPairing", 0, EmptyDiscovery, 0, "user")>>
    ELSE <<>>

\* lines 206-209
StopPairCommands(observed) ==
    IF observed = "Discovering"
    THEN <<Cmd("stopDiscover", 0, EmptyDiscovery, 0, "user")>>
    ELSE IF observed = "Pairing" \/ observed = "FindingPasskey"
    THEN <<Cmd("stopPairing", 0, EmptyDiscovery, 0, "user")>>
    ELSE <<>>

StopPairCommand(t) ==
    /\ pc[t] = "stopCmd"
    /\ cmds' = cmds \o StopPairCommands(last_state[t])
    /\ pc' = [pc EXCEPT ![t] = "idle"]
    /\ last_state' = [last_state EXCEPT ![t] = "NotPairing"]
    /\ UNCHANGED <<bolt, pair_mutex, pairReadyCalls, running, handler, registered, waits, nextHid, pair_state,
                   discovery_event, tasks, timeout, calls, enumerated,
                   ndelivered, last, accepted, completed, hooks, logs>>

\* The user threads are interchangeable: a new call runs on the first
\* thread that is not inside a call.
Caller(t) ==
    /\ pc[t] = "idle"
    /\ \A u \in Threads : pc[u] = "idle" => t <= u

StartPair == \E t \in Threads, to \in Timeouts : Caller(t) /\ StartPairLocked(t, to)

StartPairIssue == \E t \in Threads : StartPairCommand(t)

StopPair == \E t \in Threads : Caller(t) /\ StopPairLocked(t)

StopPairIssue == \E t \in Threads : StopPairCommand(t)

\* ---- specifications -------------------------------------------------------
NextLifecycle ==
    \/ Ready
    \/ \E i \in Indices : WaitForDevice(i)
    \/ DeliverLifecycle
    \/ RunLife
    \/ RunWait

NextPairing ==
    \/ Ready
    \/ StartPair
    \/ StartPairIssue
    \/ StopPair
    \/ StopPairIssue
    \/ DeliverPairing
    \/ RunBolt

\* all four subscriptions at work on one stream
Next ==
    \/ Ready
    \/ DeliverAll
    \/ RunLife
    \/ RunBolt
    \/ StartPair
    \/ StartPairIssue
    \/ StopPair
    \/ StopPairIssue

\* the lifecycle closures with the time their hooks take
NextOverlap ==
    \/ Ready
    \/ DeliverOverlap
    \/ BeginLife
    \/ EndLife

Spec == Init /\ [][Next]_vars

OverlapSpec == Init /\ [][NextOverlap]_vars

LifecycleSpec == Init /\ [][NextLifecycle]_vars

PairingSpec == Init /\ [][NextPairing]_vars

\* the pairing state machine with any consumer behind pairReady
NextConsumer ==
    \/ Ready
    \/ StartPair
    \/ StartPairIssue
    \/ StopPair
    \/ StopPairIssue
    \/ DeliverConsumer
    \/ RunBolt

ConsumerSpec == Init /\ [][NextConsumer]_vars

\* run_task runs every closure it was handed
FairLifecycleSpec == LifecycleSpec /\ WF_vars(RunLife) /\ WF_vars(RunWait)

FairPairingSpec == PairingSpec /\ WF_vars(RunBolt)

\* ==== properties ===========================================================
DeviceHooks == {"addDevice", "removeDevice"}

\* hook invocations attributable to report rid
HooksOf(rid) ==
    {h \in hooks : h.rid = rid /\ h.hook \in DeviceHooks}

\* ... made by the lifecycle handler's task
LifeHooksOf(rid) == {h \in HooksOf(rid) : h.src = "life"}

\* ... made by the task of waitForDevice handler hid
WaitHooksOf(rid, hid) ==
    {h \in HooksOf(rid) : h.src = "wait" /\ h.hid = hid}

LifeAccepted(rid) == \E a \in accepted : a.rid = rid /\ a.kind = "life"

WaitAccepted(rid, hid) ==
    \E a \in accepted : a.rid = rid /\ a.kind = "wait" /\ a.hid = hid

ExpectedHook(subId) ==
    IF subId = "DeviceConnection" THEN "addDevice" ELSE "removeDevice"

\* C1 as stated: every accepted report has at most one hook invocation
\* attributable to it (and, its tasks having run, exactly one), whatever
\* ready() and waitForDevice registrations are active.
C1_OneHookPerReport ==
    \A a \in accepted :
        /\ Cardinality(HooksOf(a.rid)) <= 1
        /\ (\A t \in tasks : t.report.rid # a.rid) => Cardinality(HooksOf(a.rid)) = 1

C1_LifecycleSafety ==
    /\ \A a \in accepted : a.kind = "life" =>
          /\ Cardinality(LifeHooksOf(a.rid)) <= 1
          /\ \A h \in LifeHooksOf(a.rid) : h.hook = ExpectedHook(a.subId)
          /\ (\A b \in accepted : b.rid = a.rid => b.kind = "life")
                => HooksOf(a.rid) = LifeHooksOf(a.rid)
    /\ \A a \in accepted : a.kind = "wait" =>
          /\ Cardinality(WaitHooksOf(a.rid, a.hid)) <= 1
          /\ \A h \in WaitHooksOf(a.rid, a.hid) : h.hook = "addDevice"
    /\ \A h \in hooks : h.hook \in DeviceHooks =>
          \E a \in accepted : a.rid = h.rid /\ a.kind = h.src /\ a.hid = h.hid

\* C1, amended: every report accepted by the lifecycle handler gets exactly
\* one hook invocation from that handler's task, addDevice for a connection
\* and removeDevice for a disconnection; it is the only invocation
\* attributable to the report unless a waitForDevice handler matched the
\* report too, and then each matching handler adds exactly one synthesized
\* addDevice.
C1_OneLifecycleHookPerReport ==
    /\ []C1_LifecycleSafety
    /\ \A rid \in 1..MaxLifecycle :
          LifeAccepted(rid) ~> (Cardinality(LifeHooksOf(rid)) = 1)
    /\ \A rid \in 1..MaxLifecycle : \A hid \in 1..MaxWait :
          WaitAccepted(rid, hid) ~> (Cardinality(WaitHooksOf(rid, hid)) = 1)

\* a disconnection only the lifecycle handler accepted has had its single
\* removeDevice, and a report a waitForDevice handler accepted too has two
C1_Witness ==
    /\ \E a \in accepted :
          /\ a.kind = "life" /\ a.subId = "DeviceDisconnection"
          /\ \A b \in accepted : b.rid = a.rid => b.kind = "life"
          /\ Cardinality(HooksOf(a.rid)) = 1
    /\ \E a \in accepted :
          /\ a.kind = "life"
          /\ \E b \in accepted : b.rid = a.rid /\ b.kind = "wait"
          /\ Cardinality(HooksOf(a.rid)) = 2

\* C2 as stated: one waitForDevice call dispatches its synthesized
\* connection event at most once, however many matching reports arrive.
C2_WaitFiresAtMostOnce ==
    \A hid \in 1..nextHid :
        Cardinality({h \in hooks : h.src = "wait" /\ h.hid = hid}) <= 1

\* C10: addDevice and removeDevice are only ever invoked inside a background
\* task; a delivery invokes neither, it only queues one task per accepting
\* raw handler.
C10_HooksOnlyInTasks ==
    /\ \A h \in hooks : h.hook \in DeviceHooks => h.thread = "task"
    /\ \A h \in last.newHooks : h.hook \notin DeviceHooks
    /\ last.accepting["connect"] = 1 =>
          \E t \in last.newTasks : t.kind = "life" /\ t.report = last.report
    /\ \A hid \in last.waits :
          \E t \in last.newTasks :
              t.kind = "wait" /\ t.hid = hid /\ t.report = last.report

\* both raw handlers accepted the latest report, and a lifecycle hook and a
\* synthesized one have run in tasks
C10_Witness ==
    /\ last.accepting["connect"] = 1
    /\ last.waits # {}
    /\ \E h \in hooks : h.src = "life" /\ h.thread = "task"
    /\ \E h \in hooks : h.src = "wait" /\ h.thread = "task"

CmdsNamed(name) == {i \in DOMAIN cmds : cmds[i].cmd = name}

\* cmds' is cmds followed by exactly one command named name
IssuesOne(name) ==
    /\ Len(cmds') = Len(cmds) + 1
    /\ SubSeq(cmds', 1, Len(cmds)) = cmds
    /\ cmds'[Len(cmds')].cmd = name

\* C3: the locked step of _stopPair records the state it saw and writes
\* NotPairing without issuing anything; the step after the lock issues one
\* stopDiscover if it saw Discovering, one stopPairing if it saw
\* FindingPasskey or Pairing, and nothing if it saw NotPairing.
C3_StopPair ==
    [][\A t \in Threads :
        /\ (pc[t] = "idle" /\ pc'[t] = "stopCmd") =>
              /\ pair_state' = "NotPairing"
              /\ last_state'[t] = pair_state
              /\ cmds' = cmds
        /\ (pc[t] = "stopCmd" /\ pc'[t] = "idle") =>
              /\ last_state[t] = "Discovering" => IssuesOne("stopDiscover")
              /\ last_state[t] \in {"FindingPasskey", "Pairing"} => IssuesOne("stopPairing")
              /\ last_state[t] = "NotPairing" => cmds' = cmds
              /\ pair_state' = pair_state]_vars

\* a _stopPair that saw FindingPasskey has returned after one stopPairing
C3_Witness ==
    /\ completed # {}
    /\ hooks = {}
    /\ calls = 2
    /\ \A t \in Threads : pc[t] = "idle"
    /\ pair_state = "NotPairing"
    /\ Cardinality(CmdsNamed("stopPairing")) = 1
    /\ cmds[Len(cmds)].cmd = "stopPairing"

\* C4: the locked step of _startPair taken in NotPairing writes Discovering
\* on a bolt receiver and Pairing on a legacy one; on a legacy receiver the
\* call then issues exactly one startPairing and no discovery command.
C4_StartPair ==
    [][\A t \in Threads :
        /\ (pc[t] = "idle" /\ pc'[t] = "startCmd" /\ pair_state = "NotPairing") =>
              /\ pair_state' = IF bolt THEN "Discovering" ELSE "Pairing"
              /\ cmds' = cmds
        /\ (pc[t] = "startCmd" /\ pc'[t] = "idle" /\ ~bolt) =>
              /\ IssuesOne("startPairing")
              /\ pair_state' = pair_state]_vars

\* one _startPair on a legacy receiver has returned
C4_Witness ==
    /\ ~bolt
    /\ calls = 1
    /\ \A t \in Threads : pc[t] = "idle"
    /\ pair_state = "Pairing"
    /\ Len(cmds) = 1 /\ cmds[1].cmd = "startPairing"

PairReadyOf(rid) ==
    {h \in hooks : h.hook = "pairReady" /\ h.rid = rid}

\* C5: a passkey report delivered in FindingPasskey moves the state to
\* Pairing and invokes pairReady once, with the record as it is at the
\* transition; delivered in any other state it changes nothing.
C5_Passkey ==
    /\ (PasskeyPredicate(last.report) /\ last.accepting["passkey"] = 1) =>
          IF last.before.pair_state = "FindingPasskey"
          THEN /\ last.after.pair_state = "Pairing"
               /\ last.after.discovery_event = last.before.discovery_event
               /\ Cardinality(last.newHooks) = 1
               /\ \A h \in last.newHooks :
                     /\ h.hook = "pairReady"
                     /\ h.disc = last.after.discovery_event
                     /\ h.passkey = passkeyEvent(last.report)
               /\ last.newTasks = {} /\ last.newCmds = <<>>
          ELSE /\ last.after = last.before
               /\ last.newHooks = {}
               /\ last.newTasks = {} /\ last.newCmds = <<>>
    /\ \A rid \in 1..ndelivered : Cardinality(PairReadyOf(rid)) <= 1

\* the latest report is a passkey report that found FindingPasskey
C5_Witness ==
    /\ PasskeyPredicate(last.report)
    /\ last.before.pair_state = "FindingPasskey"
    /\ Cardinality(PairReadyOf(last.report.rid)) = 1
    /\ \E h \in last.newHooks : h.disc # EmptyDiscovery

BoltCmdsOf(rid) ==
    {i \in CmdsNamed("startBoltPairing") : cmds[i].rid = rid}

BoltTasksOf(rid) == {t \in tasks : t.kind = "bolt" /\ t.report.rid = rid}

C6_DiscoverySafety ==
    /\ (DiscoverPredicate(last.report) /\ last.accepting["discover"] = 1) =>
          LET f == fillDeviceDiscoveryEvent(last.before.discovery_event, last.report)
          IN  IF last.before.pair_state = "Discovering" /\ f.filled
              THEN /\ last.after.pair_state = "FindingPasskey"
                   /\ last.after.discovery_event = f.event
                   /\ \E c \in completed :
                         c.rid = last.report.rid /\ c.disc = f.event
                   /\ Cardinality(last.newTasks) = 1
                   /\ last.newCmds = <<>>
              ELSE last.before.pair_state # "Discovering" =>
                      /\ last.newTasks = {} /\ last.newCmds = <<>>
                      /\ last.after = last.before
    /\ \A c \in completed :
          /\ Cardinality(BoltCmdsOf(c.rid)) + Cardinality(BoltTasksOf(c.rid)) = 1
          /\ \A i \in BoltCmdsOf(c.rid) : cmds[i].disc = c.disc /\ cmds[i].thread = "task"
    /\ \A i \in CmdsNamed("startBoltPairing") :
          \E c \in completed : c.rid = cmds[i].rid

\* C6: the device-discovered report that completes the record in
\* Discovering moves the state to FindingPasskey, and exactly one
\* startBoltPairing is eventually issued for it by a task, carrying the
\* record as completed at the transition whatever happens to the shared
\* record meanwhile; device-discovered reports outside Discovering trigger
\* nothing.
C6_DiscoveryCompletes ==
    /\ []C6_DiscoverySafety
    /\ []<>(\A c \in completed : Cardinality(BoltCmdsOf(c.rid)) = 1)

\* startBoltPairing went out with the completed record after _startPair
\* had reset the shared one
C6_Witness ==
    /\ \E c \in completed :
          /\ Cardinality(BoltCmdsOf(c.rid)) = 1
          /\ \A i \in BoltCmdsOf(c.rid) :
                /\ cmds[i].disc = c.disc
                /\ i > 1 /\ cmds[i - 1].cmd = "startDiscover"
                /\ Cardinality(CmdsNamed("startDiscover")) = 2
    /\ discovery_event = EmptyDiscovery
    /\ pair_state = "Discovering"

\* C7: a device-discovered report delivered in Discovering that leaves the
\* record incomplete keeps the state Discovering and causes no command, no
\* task and no hook.
C7_IncompleteDiscovery ==
    (/\ DiscoverPredicate(last.report) /\ last.accepting["discover"] = 1
     /\ last.before.pair_state = "Discovering"
     /\ ~fillDeviceDiscoveryEvent(last.before.discovery_event, last.report).filled)
    => /\ last.after.pair_state = "Discovering"
       /\ last.newCmds = <<>>
       /\ last.newTasks = {}
       /\ last.newHooks = {}

\* the latest report is the first half of a record, delivered in Discovering
C7_Witness ==
    /\ DiscoverPredicate(last.report) /\ last.accepting["discover"] = 1
    /\ last.before.pair_state = "Discovering"
    /\ last.before.discovery_event = EmptyDiscovery
    /\ last.after.discovery_event # EmptyDiscovery
    /\ last.after.pair_state = "Discovering"

\* C8: PairStatus or BoltPairStatus with pairing=false delivered in Pairing
\* or FindingPasskey, and DiscoveryStatus with discovering=false delivered
\* in Discovering, move the state to NotPairing with no command and no hook.
C8_StatusEndsPairing ==
    (last.accepting["pair_status"] = 1 /\ ~last.report.flag) =>
       /\ (/\ last.report.subId \in {"PairStatus", "BoltPairStatus"}
           /\ last.before.pair_state \in {"Pairing", "FindingPasskey"})
          => /\ last.after.pair_state = "NotPairing"
             /\ last.newCmds = <<>> /\ last.newHooks = {}
       /\ (/\ last.report.subId = "DiscoveryStatus"
           /\ last.before.pair_state = "Discovering")
          => /\ last.after.pair_state = "NotPairing"
             /\ last.newCmds = <<>> /\ last.newHooks = {}

\* the latest report is a BoltPairStatus with pairing=false that found
\* FindingPasskey
C8_Witness ==
    /\ last.accepting["pair_status"] = 1 /\ ~last.report.flag
    /\ last.report.subId = "BoltPairStatus"
    /\ last.before.pair_state = "FindingPasskey"
    /\ last.after.pair_state = "NotPairing"

\* C9: once ready() has been called, however often, the facility holds
\* exactly one handler of each of the four kinds; a report delivered after
\* that is processed by one instance of each kind whose predicate it
\* matches, and causes at most one task, one hook and one state transition.
C9_ReadyIdempotent ==
    /\ enumerated >= 1 =>
          \A k \in HandlerKinds : handler[k] /\ registered[k] = 1
    /\ \A k \in HandlerKinds :
          /\ last.accepting[k] <= 1
          /\ last.ready >= 1 =>
                last.accepting[k] = IF Predicate(k, last.report) THEN 1 ELSE 0
    /\ Cardinality(last.newTasks) <= 1
    /\ Cardinality(last.newHooks) <= 1
    /\ \A rid \in 1..ndelivered :
          /\ Cardinality(LifeHooksOf(rid)) <= 1
          /\ Cardinality(PairReadyOf(rid)) <= 1
          /\ Cardinality(BoltCmdsOf(rid)) <= 1

\* after two ready() calls a connection report has had its one addDevice
C9_Witness ==
    /\ last.ready = 2
    /\ last.accepting["connect"] = 1
    /\ Cardinality(LifeHooksOf(last.report.rid)) = 1
    /\ \A k \in HandlerKinds : registered[k] = 1

FailedHooks == {h \in hooks : h.failed}

\* every accepted report still has its task queued or its hook invoked
C11_NothingLost ==
    \A a \in accepted :
        \/ \E t \in tasks : t.report.rid = a.rid /\ t.kind = a.kind /\ t.hid = a.hid
        \/ \E h \in hooks : h.rid = a.rid /\ h.src = a.kind /\ h.hid = a.hid

\* the step of a task whose hook fails
C11_FailureStep ==
    \A h \in hooks' \ hooks : h.failed =>
        /\ h.hook \in DeviceHooks /\ h.thread = "task"
        /\ Cardinality(logs') = Cardinality(logs) + 1
        /\ \E l \in logs' \ logs : l.hook = h.hook /\ l.index = h.conn.index
        /\ pair_state' = pair_state
        /\ discovery_event' = discovery_event
        /\ handler' = handler
        /\ registered' = registered
        /\ waits' = {w \in waits : ~(h.src = "wait" /\ w.hid = h.hid)}
        /\ tasks' \subseteq tasks
        /\ Cardinality(tasks') = Cardinality(tasks) - 1
        /\ accepted' = accepted
        /\ cmds' = cmds

\* C11: an addDevice or removeDevice that fails inside a background task is
\* caught there: the step writes exactly one error log line naming the hook
\* and the device index and changes nothing but what the same task changes
\* when its hook succeeds (the task leaves the queue, and a waitForDevice
\* task releases its own handler before the hook is tried): pairing state,
\* discovery record and the four subscriptions stay as they were. Log lines
\* and failed invocations stay equal in number, and every accepted report,
\* before or after a failure, keeps its task queued until its hook is invoked.
C11_HookFailureContained ==
    /\ [](Cardinality(logs) = Cardinality(FailedHooks))
    /\ []C11_NothingLost
    /\ [][C11_FailureStep]_vars
    /\ [][logs' # logs => \E h \in hooks' \ hooks : h.failed]_vars

\* the hook of the first report failed and was logged, and the hook of the
\* second report has been invoked all the same
C11_Witness ==
    /\ \E h \in FailedHooks : h.rid = 1
    /\ Cardinality(logs) = 1
    /\ \E g \in hooks : g.rid = 2 /\ ~g.failed /\ g.hook \in DeviceHooks
    /\ \A k \in HandlerKinds : registered[k] = 1

\* a delivery that finds the pairing state outside the source states of
\* its trigger, or a status report that says discovering or pairing goes on
StaleDelivery(d) ==
    \/ d.report.subId = "DeviceDiscovered" /\ d.before.pair_state # "Discovering"
    \/ d.report.subId = "PasskeyRequest" /\ d.before.pair_state # "FindingPasskey"
    \/ /\ d.report.subId = "DiscoveryStatus"
       /\ \/ d.before.pair_state # "Discovering"
          \/ discoveryStatusEvent(d.report).discovering
    \/ /\ d.report.subId = "PairStatus"
       /\ \/ d.before.pair_state \notin {"FindingPasskey", "Pairing"}
          \/ pairStatusEvent(d.report).pairing
    \/ /\ d.report.subId = "BoltPairStatus"
       /\ \/ d.before.pair_state \notin {"FindingPasskey", "Pairing"}
          \/ boltPairStatusEvent(d.report).pairing

\* C12: a discovery, passkey, discovery-status or pair-status report that
\* finds the pairing state outside the source states of its trigger, or a
\* status report with discovering or pairing set, leaves the pairing state
\* and the discovery record as they were, issues no command, queues no task
\* and invokes no hook.
C12_StaleReportIgnored ==
    StaleDelivery(last) =>
        /\ last.after = last.before
        /\ last.newCmds = <<>>
        /\ last.newTasks = {}
        /\ last.newHooks = {}

\* the discovery handler was handed a device-discovered report in
\* FindingPasskey, with a filled record at stake
C12_Witness ==
    /\ last.accepting["discover"] = 1
    /\ last.report.subId = "DeviceDiscovered"
    /\ last.before.pair_state = "FindingPasskey"
    /\ last.before.discovery_event # EmptyDiscovery
    /\ pair_state = "FindingPasskey"

\* the edges of the transition table
TableEdge(from, to) ==
    \/ from = "NotPairing" /\ to \in {"Discovering", "Pairing"}
    \/ from = "Discovering" /\ to \in {"FindingPasskey", "NotPairing"}
    \/ from = "FindingPasskey" /\ to \in {"Pairing", "NotPairing"}
    \/ from = "Pairing" /\ to = "NotPairing"

\* C13 as stated: every change of the pairing state, whatever the
\* interleaving of _startPair, _stopPair and deliveries, follows an edge of
\* the transition table; the state never goes from Pairing or FindingPasskey
\* to Discovering, nor from Discovering to Pairing.
C13_TableEdgesOnly ==
    [][pair_state' # pair_state => TableEdge(pair_state, pair_state')]_vars

\* C14 as stated: every step that takes the pairing state into Discovering
\* or to NotPairing (_stopPair, a discovery-status report with discovering
\* unset, a pair-status report with pairing unset) leaves the discovery
\* record empty, so nothing of the previous attempt is kept in NotPairing.
C14_RecordResetOnTransition ==
    [][(pair_state' # pair_state /\ pair_state' \in {"Discovering", "NotPairing"})
          => discovery_event' = EmptyDiscovery]_vars

\* C15: no command goes to the receiver from inside a scope that holds
\* _pair_mutex. The scopes are the first step of _startPair and of
\* _stopPair and the pairing callbacks of a delivery: none of these steps
\* adds a command, and every command issued carries the mark of a user
\* thread past its locked scope or of a background task.
C15_NoCommandUnderLock ==
    /\ [](\A i \in DOMAIN cmds :
            ~cmds[i].locked /\ cmds[i].thread \in {"user", "task"})
    /\ [](last.newCmds = <<>>)
    /\ [][cmds' # cmds =>
            /\ ndelivered' = ndelivered
            /\ \A t \in Threads : ~(pc[t] = "idle" /\ pc'[t] # "idle")]_vars

\* a discovery command, a bolt pairing command from a task and a stop
\* command have all been issued
C15_Witness ==
    /\ CmdsNamed("startDiscover") # {}
    /\ \E i \in CmdsNamed("startBoltPairing") : cmds[i].thread = "task"
    /\ CmdsNamed("stopPairing") # {}

\* C16 as stated: at the step that issues startBoltPairing the pairing
\* state is FindingPasskey or Pairing; a _stopPair that ran after the
\* record was completed keeps the queued task from sending the command.
C16_BoltPairingWhilePairing ==
    [][IssuesOne("startBoltPairing") =>
            pair_state \in {"FindingPasskey", "Pairing"}]_vars

\* C17 as stated: _startPair and _stopPair calls, with no report in between,
\* send their commands in the order of their writes to _pair_state; so once
\* every call has returned and the state is NotPairing, the last command
\* sent, if any, is a stop command.
C17_CommandsFollowWrites ==
    (/\ ndelivered = 0
     /\ \A t \in Threads : pc[t] = "idle"
     /\ pair_state = "NotPairing"
     /\ cmds # <<>>)
        => cmds[Len(cmds)].cmd \in {"stopDiscover", "stopPairing"}

\* C19: on a legacy receiver the pairing state is NotPairing or Pairing in
\* every reachable state, whatever reports are delivered; startDiscover,
\* stopDiscover and startBoltPairing are never issued nor queued, and
\* pairReady is never invoked.
C19_LegacyNeverDiscovers ==
    ~bolt =>
        /\ pair_state \in {"NotPairing", "Pairing"}
        /\ \A t \in Threads : last_state[t] \in {"NotPairing", "Pairing"}
        /\ CmdsNamed("startDiscover") = {}
        /\ CmdsNamed("stopDiscover") = {}
        /\ CmdsNamed("startBoltPairing") = {}
        /\ \A t \in tasks : t.kind # "bolt"
        /\ \A h \in hooks : h.hook # "pairReady"

\* a legacy receiver that is pairing has been handed a device-discovered
\* report by the discovery handler
C19_Witness ==
    /\ ~bolt
    /\ pair_state = "Pairing"
    /\ last.accepting["discover"] = 1
    /\ last.report.subId = "DeviceDiscovered"
    /\ last.before.pair_state = "Pairing"
    /\ CmdsNamed("startPairing") # {}

\* C18: pairReady is invoked by the delivering thread inside the scope that
\* holds _pair_mutex. A pairReady that calls _startPair or _stopPair leaves
\* the I/O thread waiting for the lock it holds: from then on the lock is
\* never released, no report is delivered and no _startPair or _stopPair
\* gets past its lock_guard. As long as pairReady has not called back, the
\* lock is free between steps, so no thread waits for it for ever.
C18_PairReadyUnderLock ==
    /\ [](\A h \in hooks : h.hook = "pairReady" => h.locked /\ h.thread = "io")
    /\ [](pairReadyCalls = "nothing" <=> pair_mutex = "free")
    /\ [](pairReadyCalls # "nothing" => \E h \in hooks : h.hook = "pairReady")
    /\ [][pair_mutex = "io" =>
            /\ pair_mutex' = "io"
            /\ pair_state' = pair_state
            /\ ndelivered' = ndelivered
            /\ calls' = calls]_vars

\* pairReady called _stopPair: the I/O thread waits inside its own scope in
\* state Pairing, with a call still to come
C18_Witness ==
    /\ pairReadyCalls = "stopPair"
    /\ pair_mutex = "io"
    /\ pair_state = "Pairing"
    /\ calls < MaxCalls
    /\ \E h \in hooks : h.hook = "pairReady"
    /\ CmdsNamed("startBoltPairing") # {}

\* C20: run_task does not serialize the closures of the lifecycle handler:
\* a queued closure can begin whatever else is queued or in progress, and a
\* closure in progress can end whatever else is in progress. So when a
\* connection and then a disconnection of one device index are delivered,
\* removeDevice can begin before addDevice, and from there either finish
\* before addDevice begins or run while addDevice runs.
C20_HooksNotSerialized ==
    /\ \A t \in tasks : t.kind = "life" => ENABLED BeginLifeTask(t)
    /\ \A t \in running : ENABLED EndLifeTask(t)

\* the connection of device 1 was delivered first and its closure is still
\* queued, while the closure of the disconnection delivered after it is in
\* progress
C20_Witness ==
    /\ \E t \in tasks :
          /\ t.kind = "life" /\ t.report.rid = 1
          /\ t.report.subId = "DeviceConnection" /\ t.report.index = 1
    /\ \E u \in running :
          /\ u.report.rid = 2
          /\ u.report.subId = "DeviceDisconnection" /\ u.report.index = 1

====
